---- MODULE Spec2Model ----
(***************************************************************************)
(* Model of tsmap3d's Vincenty geodesic solvers (src/tsmap3d/vincenty.js): *)
(* vdist (inverse), vreckon (direct) and track2 (track discretizer),       *)
(* together with the helpers they import from funcutils, mathfun and       *)
(* ellipsoid.                                                              *)
(*                                                                         *)
(* JavaScript numbers are modelled as fixed-point values with Scale units  *)
(* per 1.0, plus the non-finite values NaN and +-Infinity and the value    *)
(* undefined.  Lengths are carried in megametres (1e6 m).  Tolerances that *)
(* lie below the resolution (1e-10, 1e-12, 1e-16) are one unit in the last *)
(* place.                                                                  *)
(***************************************************************************)
EXTENDS Integers, Sequences, FiniteSets, TLC

(***************************************************************************)
(* The value domain.                                                       *)
(***************************************************************************)
\* units per 1.0 of the fixed-point representation
Scale == 10 * 100

N(v) == [k |-> "num", v |-> v]
NaN == [k |-> "nan", v |-> 0]
Undefined == [k |-> "undefined", v |-> 0]
Inf(s) == [k |-> "inf", v |-> s]

\* a whole number n as a value
Int2Num(n) == N(n * Scale)

\* F applied to the value of v (and w): each argument is evaluated once
Bind(v, F(_)) == CHOOSE y \in {F(x) : x \in {v}} : TRUE
Bind2(v, w, F(_, _)) == CHOOSE y \in {F(a, b) : a \in {v}, b \in {w}} : TRUE

\* ToNumber: undefined converts to NaN
ToNumber(x) == IF x.k = "undefined" THEN NaN ELSE x

\* the global isNaN
isnan(x) == ToNumber(x).k = "nan"

AbsI(a) == IF a < 0 THEN -a ELSE a
SgnI(a) == IF a < 0 THEN -1 ELSE IF a > 0 THEN 1 ELSE 0
MaxI(a, b) == IF a >= b THEN a ELSE b

\* a / b rounded to nearest, b # 0
DivRound(a0, b0) ==
    Bind2(a0, b0, LAMBDA a, b :
        SgnI(a) * SgnI(b) * ((AbsI(a) + (AbsI(b) \div 2)) \div AbsI(b)))

\* a * b / Scale rounded to nearest, without forming the full product
MulFix(a0, b0) ==
    Bind2(AbsI(a0), AbsI(b0), LAMBDA aa, bb :
        ((aa \div Scale) * bb + (((aa % Scale) * bb + (Scale \div 2)) \div Scale)))
    * SgnI(a0) * SgnI(b0)

\* a * Scale / b rounded to nearest, b # 0
DivFix(a0, b0) ==
    Bind2(AbsI(a0), AbsI(b0), LAMBDA aa, bb :
        ((aa \div bb) * Scale + (((aa % bb) * Scale + (bb \div 2)) \div bb)))
    * SgnI(a0) * SgnI(b0)

(***************************************************************************)
(* Arithmetic and comparison of JavaScript numbers.                        *)
(***************************************************************************)
Neg(x0) ==
    Bind(ToNumber(x0), LAMBDA x :
        IF x.k = "nan" THEN NaN
        ELSE IF x.k = "inf" THEN Inf(-x.v)
        ELSE N(-x.v))

Add(x0, y0) ==
    Bind2(ToNumber(x0), ToNumber(y0), LAMBDA x, y :
        IF x.k = "nan" \/ y.k = "nan" THEN NaN
        ELSE IF x.k = "inf" /\ y.k = "inf" THEN (IF x.v = y.v THEN x ELSE NaN)
        ELSE IF x.k = "inf" THEN x
        ELSE IF y.k = "inf" THEN y
        ELSE N(x.v + y.v))

Sub(x, y) == Add(x, Neg(y))

Mul(x0, y0) ==
    Bind2(ToNumber(x0), ToNumber(y0), LAMBDA x, y :
        IF x.k = "nan" \/ y.k = "nan" THEN NaN
        ELSE IF x.k = "inf" \/ y.k = "inf"
             THEN (IF SgnI(x.v) * SgnI(y.v) = 0 THEN NaN
                   ELSE Inf(SgnI(x.v) * SgnI(y.v)))
        ELSE N(MulFix(x.v, y.v)))

Div(x0, y0) ==
    Bind2(ToNumber(x0), ToNumber(y0), LAMBDA x, y :
        IF x.k = "nan" \/ y.k = "nan" THEN NaN
        ELSE IF x.k = "inf" THEN (IF y.k = "inf" THEN NaN
                                   ELSE Inf(x.v * (IF y.v < 0 THEN -1 ELSE 1)))
        ELSE IF y.k = "inf" THEN N(0)
        ELSE IF y.v = 0 THEN (IF x.v = 0 THEN NaN ELSE Inf(SgnI(x.v)))
        ELSE N(DivFix(x.v, y.v)))

\* position of a non-NaN number on the extended line, for comparisons
Ord(x) == IF x.k = "inf" THEN <<x.v, 0>> ELSE <<0, x.v>>

Lt(x0, y0) ==
    Bind2(ToNumber(x0), ToNumber(y0), LAMBDA x, y :
        /\ x.k # "nan"
        /\ y.k # "nan"
        /\ \/ Ord(x)[1] < Ord(y)[1]
           \/ Ord(x)[1] = Ord(y)[1] /\ Ord(x)[2] < Ord(y)[2])

Gt(x, y) == Lt(y, x)

Le(x0, y0) ==
    Bind2(ToNumber(x0), ToNumber(y0), LAMBDA x, y :
        /\ x.k # "nan"
        /\ y.k # "nan"
        /\ ~Lt(y, x))

Ge(x, y) == Le(y, x)

\* the % operator: the remainder takes the sign of the dividend
Rem(x0, y0) ==
    Bind2(ToNumber(x0), ToNumber(y0), LAMBDA x, y :
        IF x.k = "nan" \/ y.k = "nan" \/ x.k = "inf" THEN NaN
        ELSE IF y.k = "inf" THEN x
        ELSE IF y.v = 0 THEN NaN
        ELSE N(SgnI(x.v) * (AbsI(x.v) % AbsI(y.v))))

(***************************************************************************)
(* mathfun: the Math functions the solvers import.                         *)
(***************************************************************************)
\* Math.PI
pi == N(3142)
HalfPiI == pi.v \div 2
TwoPiI == 2 * pi.v

abs(x0) ==
    Bind(ToNumber(x0), LAMBDA x :
        IF x.k = "nan" THEN NaN
        ELSE IF x.k = "inf" THEN Inf(1)
        ELSE N(AbsI(x.v)))

\* Math.sign
sign(x0) ==
    Bind(ToNumber(x0), LAMBDA x :
        IF x.k = "nan" THEN NaN ELSE N(SgnI(x.v) * Scale))

RECURSIVE IsqrtSearch(_, _, _)
\* the largest r in lo..hi with r * r <= n
IsqrtSearch(n, lo, hi) ==
    IF lo >= hi THEN lo
    ELSE Bind((lo + hi + 1) \div 2, LAMBDA mid :
             IF mid * mid <= n THEN IsqrtSearch(n, mid, hi)
             ELSE IsqrtSearch(n, lo, mid - 1))

IsqrtI(n) == IsqrtSearch(n, 0, 46340)

SqrtFix(v) ==
    IF v <= 2000000 THEN IsqrtI(v * Scale)
    ELSE IsqrtI(v \div Scale) * Scale

sqrt(x0) ==
    Bind(ToNumber(x0), LAMBDA x :
        IF x.k = "nan" THEN NaN
        ELSE IF x.k = "inf" THEN (IF x.v > 0 THEN x ELSE NaN)
        ELSE IF x.v < 0 THEN NaN
        ELSE N(SqrtFix(x.v)))

\* Math.pow(x, 2), the only exponent the solvers use
power2(x0) == Bind(x0, LAMBDA x : Mul(x, x))

\* series on [0, pi/4]
SinT(a) ==
    Bind(MulFix(a, a), LAMBDA a2 :
        Bind(MulFix(a2, a), LAMBDA a3 :
            a - DivRound(a3, 6) + DivRound(MulFix(a3, a2), 120)))

CosT(a) ==
    Bind(MulFix(a, a), LAMBDA a2 :
        Bind(MulFix(a2, a2), LAMBDA a4 :
            Scale - DivRound(a2, 2) + DivRound(a4, 24) - DivRound(MulFix(a4, a2), 720)))

\* sine on the first quadrant [0, pi/2]
SinQ(a) == IF 2 * a <= HalfPiI THEN SinT(a) ELSE CosT(HalfPiI - a)

\* the first-quadrant angle with the same sine, up to sign, as r in [0, 2 pi)
Reduce(r) ==
    IF r <= HalfPiI THEN r
    ELSE IF r <= pi.v THEN pi.v - r
    ELSE IF r <= pi.v + HalfPiI THEN r - pi.v
    ELSE TwoPiI - r

SinI(a) ==
    Bind(a % TwoPiI, LAMBDA r : (IF r <= pi.v THEN 1 ELSE -1) * SinQ(Reduce(r)))

CosI(a) == SinI(a + HalfPiI)

sin(x0) ==
    Bind(ToNumber(x0), LAMBDA x : IF x.k # "num" THEN NaN ELSE N(SinI(x.v)))

cos(x0) ==
    Bind(ToNumber(x0), LAMBDA x : IF x.k # "num" THEN NaN ELSE N(CosI(x.v)))

tan(x0) == Bind(x0, LAMBDA x : Div(sin(x), cos(x)))

RECURSIVE AsinSearch(_, _, _)
\* the largest a in lo..hi with SinQ(a) <= s
AsinSearch(s, lo, hi) ==
    IF lo >= hi THEN lo
    ELSE Bind((lo + hi + 1) \div 2, LAMBDA mid :
             IF SinQ(mid) <= s THEN AsinSearch(s, mid, hi)
             ELSE AsinSearch(s, lo, mid - 1))

\* arcsine of s in 0..Scale
AsinQ(s) == IF s >= Scale THEN HalfPiI ELSE AsinSearch(s, 0, HalfPiI)

asin(x0) ==
    Bind(ToNumber(x0), LAMBDA x :
        IF x.k # "num" THEN NaN
        ELSE IF AbsI(x.v) > Scale THEN NaN
        ELSE N(SgnI(x.v) * AsinQ(AbsI(x.v))))

\* q clipped to 1.0
Clip(q0) == Bind(q0, LAMBDA q : IF q > Scale THEN Scale ELSE q)

\* the angle in [0, pi/2] of the point (|x|, |y|), not both zero
AngleQ(ax, ay) ==
    Bind2(DivFix(ax, MaxI(ax, ay)), DivFix(ay, MaxI(ax, ay)), LAMBDA xs, ys :
        Bind(SqrtFix(MulFix(xs, xs) + MulFix(ys, ys)), LAMBDA r :
            Bind(AsinQ(Clip(DivFix(IF ay <= ax THEN ys ELSE xs, r))), LAMBDA v :
                IF ay <= ax THEN v ELSE HalfPiI - v)))

atan2(y0, x0) ==
    Bind2(ToNumber(y0), ToNumber(x0), LAMBDA y, x :
        IF x.k = "nan" \/ y.k = "nan" THEN NaN
        ELSE IF y.k = "inf" /\ x.k = "inf"
             THEN N(y.v * (IF x.v > 0 THEN HalfPiI \div 2 ELSE pi.v - (HalfPiI \div 2)))
        ELSE IF y.k = "inf" THEN N(y.v * HalfPiI)
        ELSE IF x.k = "inf" THEN N(IF x.v > 0 THEN 0
                                   ELSE (IF y.v < 0 THEN -pi.v ELSE pi.v))
        ELSE IF x.v = 0 /\ y.v = 0 THEN N(0)
        ELSE Bind(AngleQ(AbsI(x.v), AbsI(y.v)), LAMBDA base :
                 N((IF y.v < 0 THEN -1 ELSE 1) * (IF x.v < 0 THEN pi.v - base ELSE base))))

atan(x0) ==
    Bind(ToNumber(x0), LAMBDA x :
        IF x.k = "nan" THEN NaN
        ELSE IF x.k = "inf" THEN N(x.v * HalfPiI)
        ELSE atan2(x, N(Scale)))

\* degreesToRadians: degrees * (Math.PI / 180)
radians(x0) ==
    Bind(ToNumber(x0), LAMBDA x :
        IF x.k # "num" THEN x ELSE N(DivRound(x.v * pi.v, 180 * Scale)))

\* radiansToDegrees: radians * (180 / Math.PI)
degrees(x0) ==
    Bind(ToNumber(x0), LAMBDA x :
        IF x.k # "num" THEN x ELSE N(DivFix(x.v * 180, pi.v)))

\* a whole-number literal of the source
K(n) == Int2Num(n)

\* the literals 1e-10, 1e-12 and 1e-16: one unit in the last place
Eps10 == N(1)
Eps12 == N(1)
Eps16 == N(1)

(***************************************************************************)
(* funcutils: assert, notZero, ZeroDivisionError.                          *)
(***************************************************************************)
\* the names funcutils exports
FuncutilsExports == {"assert", "notZero", "ZeroDivisionError"}

\* assert(condition, message): what it throws, "none" when it returns
assert(condition, message) ==
    IF ~condition THEN [name |-> "Error", message |-> message]
    ELSE [name |-> "none", message |-> ""]

NoError == [name |-> "none", message |-> ""]

\* notZero(n): n = +n; throws ZeroDivisionError when !n (0 and NaN)
notZero(n0) ==
    Bind(ToNumber(n0), LAMBDA n :
        IF n.k = "nan" \/ (n.k = "num" /\ n.v = 0)
        THEN [thrown |-> [name |-> "ZeroDivisionError", message |-> ""],
              value |-> Undefined]
        ELSE [thrown |-> NoError, value |-> n])

\* a fault: the catch clause tests for another class of error
InstanceOfRangeError(e) == e.name = "RangeError"

\* e instanceof ZeroDivisionError
InstanceOfZeroDivisionError(e) == e.name = "ZeroDivisionError"

(***************************************************************************)
(* ellipsoid: the Ellipsoid class and the module-level wgs84.              *)
(***************************************************************************)
Null == [k |-> "null", v |-> 0]

\* new Ellipsoid(semimajor_axis, semiminor_axis, name)
Ellipsoid(semimajor_axis, semiminor_axis, name) ==
    LET flattening == Div(Sub(semimajor_axis, semiminor_axis), semimajor_axis)
        thrown == assert(Ge(flattening, K(0)), "flattening must be >= 0")
    IN [thrown |-> thrown,
        object |-> [k |-> "Ellipsoid", v |-> 0,
                    flattening |-> flattening,
                    thirdflattening |-> Div(Sub(semimajor_axis, semiminor_axis),
                                            Add(semimajor_axis, semiminor_axis)),
                    eccentricity |-> sqrt(Sub(Mul(K(2), flattening), power2(flattening))),
                    name |-> name,
                    semimajor_axis |-> semimajor_axis,
                    semiminor_axis |-> semiminor_axis]]

\* wgs84 = new Ellipsoid(6378137.0, 6356752.31424518, "WGS-84 (1984)"), in Mm
Wgs84Object == Ellipsoid(N(6378), N(6357), "WGS-84 (1984)").object

\* saturn = new Ellipsoid(60268000.0, 54364301.5271271, "Saturn"), in Mm
SaturnObject == Ellipsoid(N(60268), N(54364), "Saturn").object

\* an ellipsoid a caller constructs, flat enough for vreckon's series terms to
\* show at the scale of the model: new Ellipsoid(1.6, 1.0, "oblate"), in Mm
OblateObject == Ellipsoid(N(1600), N(1000), "oblate").object

(***************************************************************************)
(* vdist: the inverse solver.                                              *)
(***************************************************************************)
\* the iteration cap of vdist's loop
MaxIterations == 50

\* ell = null defaults to the module-level wgs84
DefaultEll(ell, moduleWgs84) == IF ell.k = "null" THEN moduleWgs84 ELSE ell

\* a fault: the assert of line 77 with the second latitude forgotten
VdistLatitudesOkFirstOnly(Lat1, Lat2) == Le(abs(Lat1), K(90))

\* the condition of vdist's assert
VdistLatitudesOk(Lat1, Lat2) == Le(abs(Lat1), K(90)) /\ Le(abs(Lat2), K(90))

VdistLatMessage == "Input latitudes must be in [-90, 90] degrees."

\* a fault: the nudge without the sign of the latitude
PoleNudgeUnsigned(lat0) ==
    Bind(lat0, LAMBDA lat :
        IF Lt(abs(Sub(Div(pi, K(2)), abs(lat))), Eps10)
        THEN Sub(Div(pi, K(2)), Eps10)
        ELSE lat)

\* a latitude within 1e-10 of a pole is moved to sign(lat) * (pi/2 - 1e-10)
PoleNudge(lat0) ==
    Bind(lat0, LAMBDA lat :
        IF Lt(abs(Sub(Div(pi, K(2)), abs(lat))), Eps10)
        THEN Mul(sign(lat), Sub(Div(pi, K(2)), Eps10))
        ELSE lat)

\* vdist's locals as declared by its let, all undefined, and what the call
\* has done so far: warnings emitted, full passes run, ZeroDivisionErrors
\* caught, a break taken, an error thrown
VdistDeclared ==
    [A |-> Undefined, B |-> Undefined, C |-> Undefined, L |-> Undefined,
     U1 |-> Undefined, U2 |-> Undefined, a |-> Undefined, a12 |-> Undefined,
     alpha |-> Undefined, az |-> Undefined, b |-> Undefined,
     cos2sigmam |-> Undefined, cossigma |-> Undefined, deltasigma |-> Undefined,
     denom |-> Undefined, dist_m |-> Undefined, f |-> Undefined,
     itercount |-> 0, lamb |-> Undefined, lambdaold |-> Undefined,
     lat1 |-> Undefined, lat2 |-> Undefined, lon1 |-> Undefined, lon2 |-> Undefined,
     notdone |-> FALSE, numer |-> Undefined, sigma |-> Undefined,
     sinAlpha |-> Undefined, sinsigma |-> Undefined, u2 |-> Undefined,
     warninggiven |-> FALSE,
     warnings |-> 0, passes |-> 0, caught |-> 0, broke |-> FALSE, thrown |-> NoError]

\* the next statement F runs on locals s0 unless an error is on its way out
Step(s0, F(_)) == Bind(s0, LAMBDA s : IF s.thrown.name # "none" THEN s ELSE F(s))

\* lines 78-84
VdistRadians(Lat1, Lon1, Lat2, Lon2, ell) ==
    [VdistDeclared EXCEPT
       !.a = ell.semimajor_axis, !.b = ell.semiminor_axis, !.f = ell.flattening,
       !.lat1 = radians(Lat1), !.lon1 = radians(Lon1),
       !.lat2 = radians(Lat2), !.lon2 = radians(Lon2)]

\* lines 85-90
VdistNudge(s) == [s EXCEPT !.lat1 = PoleNudge(s.lat1), !.lat2 = PoleNudge(s.lat2)]

\* lines 91-95
VdistReduced(s) ==
    [s EXCEPT
       !.U1 = atan(Mul(Sub(K(1), s.f), tan(s.lat1))),
       !.U2 = atan(Mul(Sub(K(1), s.f), tan(s.lat2))),
       !.lon1 = Rem(s.lon1, Mul(K(2), pi)),
       !.lon2 = Rem(s.lon2, Mul(K(2), pi)),
       !.L = abs(Sub(Rem(s.lon2, Mul(K(2), pi)), Rem(s.lon1, Mul(K(2), pi))))]

\* lines 96-98
VdistFoldL(s) == IF Gt(s.L, pi) THEN [s EXCEPT !.L = Sub(Mul(K(2), pi), s.L)] ELSE s

\* lines 99-102
VdistStart(s) ==
    [s EXCEPT !.lamb = s.L, !.itercount = 0, !.warninggiven = FALSE, !.notdone = TRUE]

\* lines 78-102: the locals when the loop is first entered
VdistSetup(Lat1, Lon1, Lat2, Lon2, ell) ==
    Step(Step(Step(Step(VdistRadians(Lat1, Lon1, Lat2, Lon2, ell),
        VdistNudge), VdistReduced), VdistFoldL), VdistStart)

\* x.real for a number x: Number has no such property
Real(x) == Undefined

\* lines 112-116
VdistSigmaParts(s) ==
    [s EXCEPT
       !.lambdaold = s.lamb,
       !.sinsigma =
           Real(sqrt(Add(power2(Mul(cos(s.U2), sin(s.lamb))),
                         power2(Sub(Mul(cos(s.U1), sin(s.U2)),
                                    Mul(Mul(sin(s.U1), cos(s.U2)), cos(s.lamb))))))),
       !.cossigma =
           Real(Add(Mul(sin(s.U1), sin(s.U2)),
                    Mul(Mul(cos(s.U1), cos(s.U2)), cos(s.lamb))))]

\* line 117
VdistSigma(s) == [s EXCEPT !.sigma = atan2(s.sinsigma, s.cossigma)]

\* the catch clause of lines 120-126 for the error e
VdistCatch(s, e) ==
    IF InstanceOfZeroDivisionError(e)
    THEN [s EXCEPT !.sinAlpha = K(0), !.caught = s.caught + 1]
    ELSE [s EXCEPT !.thrown = e]

\* lines 118-126: the division guarded by notZero, and its catch
VdistSinAlpha(s) ==
    Bind(notZero(sin(s.sigma)), LAMBDA d :
        IF d.thrown.name = "none"
        THEN [s EXCEPT !.sinAlpha = Div(Mul(Mul(cos(s.U1), cos(s.U2)), sin(s.lamb)),
                                        d.value)]
        ELSE VdistCatch(s, d.thrown))

\* lines 127-135
VdistAlpha(s) ==
    [s EXCEPT !.alpha =
        IF isnan(s.sinAlpha) THEN K(0)
        ELSE IF Gt(s.sinAlpha, K(1)) \/ Lt(abs(Sub(s.sinAlpha, K(1))), Eps16)
             THEN Div(pi, K(2))
             ELSE asin(s.sinAlpha)]

\* lines 136-137
VdistCorrection(s) ==
    Bind(power2(cos(s.alpha)), LAMBDA cosSqAlpha :
        [s EXCEPT
           !.cos2sigmam = Sub(cos(s.sigma),
                              Div(Mul(Mul(K(2), sin(s.U1)), sin(s.U2)), cosSqAlpha)),
           !.C = Mul(Mul(Div(s.f, K(16)), cosSqAlpha),
                     Add(K(4), Mul(s.f, Sub(K(4), Mul(K(3), cosSqAlpha)))))])

\* line 138
VdistLambda(s) ==
    [s EXCEPT !.lamb =
        Add(s.L,
            Mul(Mul(Mul(Sub(K(1), s.C), s.f), sin(s.alpha)),
                Add(s.sigma,
                    Mul(Mul(s.C, sin(s.sigma)),
                        Add(s.cos2sigmam,
                            Mul(Mul(s.C, cos(s.sigma)),
                                Add(K(-1), Mul(K(2), power2(s.cos2sigmam)))))))))]

\* a fault: the clamp taken whenever lamb is not below pi, warning each time
\* and leaving lambdaold alone, so that the pass does not end the loop
VdistClampNoExit(s) ==
    IF ~Lt(s.lamb, pi)
    THEN [s EXCEPT !.warnings = s.warnings + 1, !.warninggiven = TRUE, !.lamb = pi]
    ELSE s

\* lines 139-144
VdistClamp(s) ==
    IF Gt(s.lamb, pi)
    THEN [s EXCEPT !.warnings = s.warnings + 1, !.warninggiven = TRUE,
                   !.lambdaold = pi, !.lamb = pi]
    ELSE s

\* the loop's exit test, line 145
VdistNotDone(lamb, lambdaold) == Gt(abs(Sub(lamb, lambdaold)), Eps12)

\* line 145, which ends a full pass
VdistTest(s) ==
    [s EXCEPT !.notdone = VdistNotDone(s.lamb, s.lambdaold), !.passes = s.passes + 1]

\* lines 112-145: one full pass of the body
VdistBody(s) ==
    Step(Step(Step(Step(Step(Step(Step(VdistSigmaParts(s),
        VdistSigma), VdistSinAlpha), VdistAlpha), VdistCorrection), VdistLambda),
        VdistClamp), VdistTest)

\* the cap test, line 105
VdistCapReached(itercount) == itercount > MaxIterations

\* lines 105-111: the cap is reached
VdistGiveUp(s) ==
    [s EXCEPT !.warnings = IF ~s.warninggiven THEN s.warnings + 1 ELSE s.warnings,
              !.lamb = pi,
              !.broke = TRUE]

\* a fault: the cap tested one entry late, in a loop whose exit test never
\* fails
VdistPassLateCap(s0) ==
    Bind([s0 EXCEPT !.itercount = s0.itercount + 1], LAMBDA s :
        IF s.itercount > MaxIterations + 1 THEN VdistGiveUp(s)
        ELSE [VdistBody(s) EXCEPT !.notdone = TRUE])

\* lines 104-146: one entry into the loop body
VdistPass(s0) ==
    Bind([s0 EXCEPT !.itercount = s0.itercount + 1], LAMBDA s :
        IF VdistCapReached(s.itercount) THEN VdistGiveUp(s) ELSE VdistBody(s))

\* the loop is left: notdone is false, a break was taken or the body threw
VdistLoopLeft(s) == ~s.notdone \/ s.broke \/ s.thrown.name # "none"

\* line 147
VdistU2(s) ==
    [s EXCEPT !.u2 = Div(Mul(power2(cos(s.alpha)), Sub(power2(s.a), power2(s.b))),
                         power2(s.b))]

\* lines 148-149
VdistSeries(s) ==
    [s EXCEPT
       !.A = Add(K(1), Mul(Div(s.u2, K(16384)),
                 Add(K(4096), Mul(s.u2, Add(K(-768),
                     Mul(s.u2, Sub(K(320), Mul(K(175), s.u2)))))))),
       !.B = Mul(Div(s.u2, K(1024)),
                 Add(K(256), Mul(s.u2, Add(K(-128),
                     Mul(s.u2, Sub(K(74), Mul(K(47), s.u2)))))))]

\* line 150
VdistDeltaSigma(s) ==
    [s EXCEPT !.deltasigma =
        Mul(Mul(s.B, sin(s.sigma)),
            Add(s.cos2sigmam,
                Mul(Div(s.B, K(4)),
                    Sub(Mul(cos(s.sigma), Add(K(-1), Mul(K(2), power2(s.cos2sigmam)))),
                        Mul(Mul(Mul(Div(s.B, K(6)), s.cos2sigmam),
                                Add(K(-3), Mul(K(4), power2(sin(s.sigma))))),
                            Add(K(-3), Mul(K(4), power2(s.cos2sigmam))))))))]

\* lines 151-152
VdistDistance(s) ==
    [s EXCEPT !.dist_m = Mul(Mul(s.b, s.A), Sub(s.sigma, s.deltasigma)),
              !.lamb = abs(s.lamb)]

\* lines 153-155
VdistSignLambda(s) ==
    IF Lt(Mul(sign(sin(Sub(s.lon2, s.lon1))), sign(sin(s.lamb))), K(0))
    THEN [s EXCEPT !.lamb = Neg(s.lamb)]
    ELSE s

\* lines 156-157
VdistNumerDenom(s) ==
    [s EXCEPT
       !.numer = Mul(cos(s.U2), sin(s.lamb)),
       !.denom = Sub(Mul(cos(s.U1), sin(s.U2)),
                     Mul(Mul(sin(s.U1), cos(s.U2)), cos(s.lamb)))]

\* lines 158-160
VdistAzimuth(s) ==
    Bind(Rem(atan2(s.numer, s.denom), Mul(K(2), pi)), LAMBDA a12 :
        [s EXCEPT !.a12 = a12, !.az = degrees(a12)])

\* lines 147-160: the locals at the return statement
VdistPost(s) ==
    Step(Step(Step(Step(Step(Step(VdistU2(s),
        VdistSeries), VdistDeltaSigma), VdistDistance), VdistSignLambda),
        VdistNumerDenom), VdistAzimuth)

\* line 161: [dist_m, az]
VdistValue(s) == <<s.dist_m, s.az>>

RECURSIVE VdistLoop(_)
\* the while loop run to its end
VdistLoop(s) ==
    IF VdistLoopLeft(s) THEN s ELSE Bind(VdistPass(s), LAMBDA t : VdistLoop(t))

\* what a call of vdist that left its loop with locals s throws or returns
VdistEnd(s) ==
    IF s.thrown.name # "none"
    THEN [thrown |-> s.thrown, value |-> <<Undefined, Undefined>>,
          warnings |-> s.warnings, passes |-> s.passes]
    ELSE [thrown |-> NoError, value |-> VdistValue(VdistPost(s)),
          warnings |-> s.warnings, passes |-> s.passes]

\* a whole call of vdist: what it throws, what it returns, and what it did
vdist(Lat1, Lon1, Lat2, Lon2, ell0, moduleWgs84) ==
    Bind(assert(VdistLatitudesOk(Lat1, Lat2), VdistLatMessage), LAMBDA pre :
        IF pre.name # "none"
        THEN [thrown |-> pre, value |-> <<Undefined, Undefined>>,
              warnings |-> 0, passes |-> 0]
        ELSE Bind(VdistSetup(Lat1, Lon1, Lat2, Lon2, DefaultEll(ell0, moduleWgs84)),
                  LAMBDA s0 : Bind(VdistLoop(s0), VdistEnd)))

(***************************************************************************)
(* vreckon: the direct solver.                                             *)
(***************************************************************************)
\* the conditions of vreckon's two asserts
VreckonLatOk(Lat1) == Le(abs(Lat1), K(90))

\* a fault: the assert of line 225 with > for >=
VreckonRngOkStrict(Rng) == Gt(Rng, K(0))

VreckonRngOk(Rng) == Ge(Rng, K(0))

VreckonLatMessage == "Input lat. must be between -90 and 90 deg., inclusive."
VreckonRngMessage == "Ground distance must be positive"

\* lines 224-225: the first assert that fails
VreckonPrecondition(Lat1, Rng) ==
    Bind(assert(VreckonLatOk(Lat1), VreckonLatMessage), LAMBDA first :
        IF first.name # "none" THEN first
        ELSE assert(VreckonRngOk(Rng), VreckonRngMessage))

\* vreckon's locals as declared by its let, all undefined, with the Rng
\* argument, the passes of the loop run so far and an error thrown
VreckonDeclared ==
    [A |-> Undefined, B |-> Undefined, C |-> Undefined, L |-> Undefined,
     a |-> Undefined, alpha1 |-> Undefined, b |-> Undefined,
     cos2SigmaM |-> Undefined, cosAlpha1 |-> Undefined, cosSigma |-> Undefined,
     cosSqAlpha |-> Undefined, cosU1 |-> Undefined, deltaSigma |-> Undefined,
     f |-> Undefined, i |-> FALSE, lamb |-> Undefined, lat1 |-> Undefined,
     lat2 |-> Undefined, lon1 |-> Undefined, lon2 |-> Undefined,
     sigma |-> Undefined, sigma1 |-> Undefined, sigmaP |-> Undefined,
     sinAlpha |-> Undefined, sinAlpha1 |-> Undefined, sinSigma |-> Undefined,
     sinU1 |-> Undefined, tanU1 |-> Undefined, tmp |-> Undefined, uSq |-> Undefined,
     Rng |-> Undefined, passes |-> 0, thrown |-> NoError]

\* a fault: the loop test inverted
VreckonNotDoneInverted(sigma, sigmaP) == Le(abs(Sub(sigma, sigmaP)), Eps12)

\* the loop test, lines 256 and 264
VreckonNotDone(sigma, sigmaP) == Gt(abs(Sub(sigma, sigmaP)), Eps12)

\* lines 230-235
VreckonRadians(Lat1, Lon1, Rng, Azim, ell) ==
    [VreckonDeclared EXCEPT
       !.a = ell.semimajor_axis, !.b = ell.semiminor_axis, !.f = ell.flattening,
       !.lat1 = radians(Lat1), !.lon1 = radians(Lon1),
       !.Rng = Rng, !.alpha1 = radians(Azim)]

\* lines 236-241; alpha1 was set in VreckonRadians
VreckonNudge(s) ==
    [s EXCEPT !.lat1 = PoleNudge(s.lat1),
              !.sinAlpha1 = sin(s.alpha1), !.cosAlpha1 = cos(s.alpha1)]

\* line 242
VreckonTanU1(s) == [s EXCEPT !.tanU1 = Mul(Sub(K(1), s.f), tan(s.lat1))]

\* line 243
VreckonCosU1(s) == [s EXCEPT !.cosU1 = Div(K(1), sqrt(Add(K(1), power2(s.tanU1))))]

\* lines 244-246
VreckonSinU1(s) ==
    [s EXCEPT !.sinU1 = Mul(s.tanU1, s.cosU1),
              !.sigma1 = atan2(s.tanU1, s.cosAlpha1),
              !.sinAlpha = Mul(s.cosU1, s.sinAlpha1)]

\* line 247
VreckonCosSqAlpha(s) ==
    [s EXCEPT !.cosSqAlpha = Sub(K(1), Mul(s.sinAlpha, s.sinAlpha))]

\* line 248
VreckonUSq(s) ==
    [s EXCEPT !.uSq = Div(Mul(s.cosSqAlpha, Sub(power2(s.a), power2(s.b))),
                          power2(s.b))]

\* lines 249-250
VreckonSeries(s) ==
    [s EXCEPT
       !.A = Add(K(1), Mul(Div(s.uSq, K(16384)),
                 Add(K(4096), Mul(s.uSq, Add(K(-768),
                     Mul(s.uSq, Sub(K(320), Mul(K(175), s.uSq)))))))),
       !.B = Mul(Div(s.uSq, K(1024)),
                 Add(K(256), Mul(s.uSq, Add(K(-128),
                     Mul(s.uSq, Sub(K(74), Mul(K(47), s.uSq)))))))]

\* lines 251-255
VreckonFirstSigma(s) ==
    [s EXCEPT !.sigma = Div(s.Rng, Mul(s.b, s.A)), !.sigmaP = Mul(K(2), pi),
              !.sinSigma = NaN, !.cosSigma = NaN, !.cos2SigmaM = NaN]

\* lines 256 and 264
VreckonTest(s) == [s EXCEPT !.i = VreckonNotDone(s.sigma, s.sigmaP)]

\* lines 230-256: the locals when the loop is first tested
VreckonSetup(Lat1, Lon1, Rng, Azim, ell) ==
    Step(Step(Step(Step(Step(Step(Step(Step(Step(
        VreckonRadians(Lat1, Lon1, Rng, Azim, ell),
        VreckonNudge), VreckonTanU1), VreckonCosU1), VreckonSinU1),
        VreckonCosSqAlpha), VreckonUSq), VreckonSeries), VreckonFirstSigma),
        VreckonTest)

\* lines 258-260
VreckonTrig(s) ==
    [s EXCEPT !.cos2SigmaM = cos(Add(Mul(K(2), s.sigma1), s.sigma)),
              !.sinSigma = sin(s.sigma), !.cosSigma = cos(s.sigma)]

\* line 261
VreckonDeltaSigma(s) ==
    [s EXCEPT !.deltaSigma =
        Mul(Mul(s.B, s.sinSigma),
            Add(s.cos2SigmaM,
                Mul(Div(s.B, K(4)),
                    Sub(Mul(s.cosSigma,
                            Add(K(-1), Mul(Mul(K(2), s.cos2SigmaM), s.cos2SigmaM))),
                        Mul(Mul(Mul(Div(s.B, K(6)), s.cos2SigmaM),
                                Add(K(-3), Mul(Mul(K(4), s.sinSigma), s.sinSigma))),
                            Add(K(-3), Mul(Mul(K(4), s.cos2SigmaM), s.cos2SigmaM)))))))]

\* a fault: the pass also overwrites sinAlpha
VreckonNextSigmaClobber(s) ==
    [s EXCEPT !.sigmaP = s.sigma,
              !.sigma = Add(Div(s.Rng, Mul(s.b, s.A)), s.deltaSigma),
              !.sinAlpha = s.sinSigma,
              !.passes = s.passes + 1]

\* lines 262-263
VreckonNextSigma(s) ==
    [s EXCEPT !.sigmaP = s.sigma,
              !.sigma = Add(Div(s.Rng, Mul(s.b, s.A)), s.deltaSigma),
              !.passes = s.passes + 1]

\* lines 258-264: one pass of the loop body
VreckonPass(s) ==
    Step(Step(Step(VreckonTrig(s), VreckonDeltaSigma), VreckonNextSigma), VreckonTest)

\* line 266
VreckonTmp(s) ==
    [s EXCEPT !.tmp = Sub(Mul(s.sinU1, s.sinSigma),
                          Mul(Mul(s.cosU1, s.cosSigma), s.cosAlpha1))]

\* lines 267-269
VreckonLat2(s) ==
    [s EXCEPT
       !.lat2 = atan2(Add(Mul(s.sinU1, s.cosSigma),
                          Mul(Mul(s.cosU1, s.sinSigma), s.cosAlpha1)),
                      Mul(Sub(K(1), s.f),
                          sqrt(Add(Mul(s.sinAlpha, s.sinAlpha), power2(s.tmp))))),
       !.lamb = atan2(Mul(s.sinSigma, s.sinAlpha1),
                      Sub(Mul(s.cosU1, s.cosSigma),
                          Mul(Mul(s.sinU1, s.sinSigma), s.cosAlpha1))),
       !.C = Mul(Mul(Div(s.f, K(16)), s.cosSqAlpha),
                 Add(K(4), Mul(s.f, Sub(K(4), Mul(K(3), s.cosSqAlpha)))))]

\* line 270
VreckonL(s) ==
    [s EXCEPT !.L =
        Sub(s.lamb,
            Mul(Mul(Mul(s.f, Sub(K(1), s.C)), s.sinAlpha),
                Add(s.sigma,
                    Mul(Mul(s.C, s.sinSigma),
                        Add(s.cos2SigmaM,
                            Mul(Mul(s.C, s.cosSigma),
                                Add(K(-1), Mul(Mul(K(2), s.cos2SigmaM),
                                               s.cos2SigmaM))))))))]

\* lines 271-272
VreckonLon2(s) == [s EXCEPT !.lon2 = Rem(degrees(Add(s.lon1, s.L)), K(360))]

\* lines 266-272: the locals at the return statement
VreckonPost(s) == Step(Step(Step(VreckonTmp(s), VreckonLat2), VreckonL), VreckonLon2)

\* line 273: [degrees(lat2), lon2]
VreckonValue(s) == <<degrees(s.lat2), s.lon2>>

\* a bound on the passes of vreckon's loop followed by the model
MaxReckonPasses == 8

RECURSIVE VreckonLoop(_)
\* the while loop run to its end
VreckonLoop(s) ==
    IF ~s.i \/ s.passes >= MaxReckonPasses THEN s
    ELSE Bind(VreckonPass(s), LAMBDA t : VreckonLoop(t))

\* what a call of vreckon that left its loop with locals s returns
VreckonEnd(s) ==
    [thrown |-> NoError, value |-> VreckonValue(VreckonPost(s)), passes |-> s.passes]

\* a whole call of vreckon: what it throws and what it returns
vreckon(Lat1, Lon1, Rng, Azim, ell0, moduleWgs84) ==
    Bind(VreckonPrecondition(Lat1, Rng), LAMBDA pre :
        IF pre.name # "none"
        THEN [thrown |-> pre, value |-> <<Undefined, Undefined>>, passes |-> 0]
        ELSE Bind(VreckonSetup(Lat1, Lon1, Rng, Azim, DefaultEll(ell0, moduleWgs84)),
                  LAMBDA s0 : Bind(VreckonLoop(s0), VreckonEnd)))

(***************************************************************************)
(* track2: the track discretizer.                                          *)
(***************************************************************************)
\* a fault: the assert of line 312 off by one
Track2NptsOkFromOne(npts) == npts > 0

\* the condition of track2's first assert
Track2NptsOk(npts) == npts > 1

Track2NptsMessage == "npts must be greater than 1"

Track2AntipodalMessage ==
    "cannot compute intermediate points on a great circle whose endpoints are antipodal"

\* line 314: the two-point special case
Track2IsTwoPoints(npts) == npts = 2

\* a fault: the two endpoints returned as points, [[lat1, lon1], [lat2, lon2]]
Track2EndpointsAsPoints(lat1, lon1, lat2, lon2) == <<<<lat1, lon1>>, <<lat2, lon2>>>>

\* line 315: the two endpoints verbatim, [[lat1, lat2], [lon1, lon2]]
Track2Endpoints(lat1, lon1, lat2, lon2) == <<<<lat1, lat2>>, <<lon1, lon2>>>>

\* lines 317-324: the endpoints in radians, [rlat1, rlon1, rlat2, rlon2]
Track2Radians(lat1, lon1, lat2, lon2, deg) ==
    IF deg THEN <<radians(lat1), radians(lon1), radians(lat2), radians(lon2)>>
    ELSE <<lat1, lon1, lat2, lon2>>

\* line 325: the great-circle arc between the endpoints
Track2Gcarclen(lat1, lon1, lat2, lon2, deg) ==
    Bind(Track2Radians(lat1, lon1, lat2, lon2, deg), LAMBDA r :
        Mul(K(2),
            asin(sqrt(Add(power2(sin(Div(Sub(r[1], r[3]), K(2)))),
                          Mul(Mul(cos(r[1]), cos(r[3])),
                              power2(sin(Div(Sub(r[2], r[4]), K(2))))))))))

\* a fault: the assert of line 326 taking the arc for degrees
Track2NotAntipodalInDegrees(gcarclen) == Ge(abs(Sub(gcarclen, K(180))), Eps12)

\* the condition of the assert of line 326
Track2NotAntipodal(gcarclen) == Ge(abs(Sub(gcarclen, pi)), Eps12)

\* the methods of an Array that track2 uses; Array has no append
ArrayMethods == {"map"}

\* a call of an imported name that its module does not export, or of a method
\* the object does not have, throws TypeError
NotAFunction(name) == [name |-> "TypeError", message |-> name]

\* track2's locals as declared by its let
Track2Declared ==
    [gcarclen |-> Undefined, distance |-> Undefined, azimuth |-> Undefined,
     incdist |-> Undefined, latpt |-> Undefined, lonpt |-> Undefined,
     lats |-> <<>>, lons |-> <<>>]

\* lines 328-333: the locals after the call r of vdist has returned
Track2Start(t, r, lat1, lon1, npts) ==
    [t EXCEPT !.distance = r.value[1], !.azimuth = r.value[2],
              !.incdist = Div(r.value[1], Int2Num(npts - 1)),
              !.latpt = lat1, !.lonpt = lon1,
              !.lons = <<lon1>>, !.lats = <<lat1>>]

\* the solver calls of lines 335 and 336
Track2CallVreckon == [fn |-> "vreckon", ell |-> Null]
Track2CallVdist(ell) == [fn |-> "vdist", ell |-> ell]

\* lines 335-337: the first pass of the body, were range a function
Track2Body(t, lat2, lon2, ell, moduleWgs84) ==
    Bind(vreckon(t.latpt, t.lonpt, t.incdist, t.azimuth, Null, moduleWgs84), LAMBDA r :
        IF r.thrown.name # "none"
        THEN [thrown |-> r.thrown, calls |-> <<Track2CallVreckon>>]
        ELSE Bind(vdist(r.value[1], r.value[2], lat2, lon2, ell, moduleWgs84), LAMBDA v :
                 [thrown |-> IF v.thrown.name # "none" THEN v.thrown
                             ELSE NotAFunction("append"),
                  calls |-> <<Track2CallVreckon, Track2CallVdist(ell)>>]))

\* lines 334-341: the for statement; the error that ends it and the solver
\* calls made before that
Track2For(t, lat2, lon2, ell, npts, moduleWgs84) ==
    IF "range" \notin FuncutilsExports
    THEN [thrown |-> NotAFunction("range"), calls |-> <<>>]
    ELSE Track2Body(t, lat2, lon2, ell, moduleWgs84)

(***************************************************************************)
(* The program: a caller makes one call at a time of vdist, vreckon or     *)
(* track2; each call runs through the positions of its code.               *)
(***************************************************************************)
VARIABLES
    pc,       \* the position in the running function, "idle" between calls
    fn,       \* the function called
    args,     \* its arguments
    vd,       \* vdist's locals
    vr,       \* vreckon's locals
    tr,       \* track2's locals
    calls,    \* the solver calls track2 has made
    outcome,  \* how the call ended: returned value or thrown error
    wgs84     \* the module-level ellipsoid of ellipsoid.js

vars == <<pc, fn, args, vd, vr, tr, calls, outcome, wgs84>>

\* the largest npts the caller passes
MaxNpts == 4

\* the arguments the caller draws from
Latitudes == {K(-91), K(-90), K(0), K(45), K(90), K(91)}
Longitudes == {K(-350), K(0), K(90), K(180), K(350)}
\* N(39947) is the range whose first sigma, Rng / (b * A), is 2 pi on WGS-84
\* from the equator
Ranges == {N(-1), K(0), K(1), K(10), N(39947)}
Azimuths == {K(-90), K(0), K(90), K(270)}
Ells == {Null, SaturnObject}
ReckonElls == Ells \cup {OblateObject}
TrackLatitudes(deg) == IF deg THEN {K(-30), K(0), K(30), K(91)} ELSE {K(0), Div(pi, K(2))}
TrackLongitudes(deg) == IF deg THEN {K(0), K(90), K(180)} ELSE {K(0), Div(pi, K(2)), pi}
Npts == 0..MaxNpts
Axes == {K(-2), K(-1), K(0), K(1), K(2)}

NoArgs ==
    [Lat1 |-> Undefined, Lon1 |-> Undefined, Lat2 |-> Undefined, Lon2 |-> Undefined,
     Rng |-> Undefined, Azim |-> Undefined, ell |-> Null, npts |-> 0, deg |-> TRUE,
     semimajor_axis |-> Undefined, semiminor_axis |-> Undefined]

NoOutcome == [status |-> "none", thrown |-> NoError, value |-> <<>>]
Returned(value) == [status |-> "returned", thrown |-> NoError, value |-> value]
Thrown(e) == [status |-> "thrown", thrown |-> e, value |-> <<>>]

Init ==
    /\ pc = "idle"
    /\ fn = "none"
    /\ args = NoArgs
    /\ vd = VdistDeclared
    /\ vr = VreckonDeclared
    /\ tr = Track2Declared
    /\ calls = <<>>
    /\ outcome = NoOutcome
    /\ wgs84 = Wgs84Object

\* ---------------------------------------------------------------- vdist
CallVdist ==
    /\ pc = "idle"
    /\ \E Lat1 \in Latitudes, Lon1 \in Longitudes, Lat2 \in Latitudes,
          Lon2 \in Longitudes, ell \in Ells :
          args' = [NoArgs EXCEPT !.Lat1 = Lat1, !.Lon1 = Lon1, !.Lat2 = Lat2,
                                 !.Lon2 = Lon2, !.ell = ell]
    /\ fn' = "vdist"
    /\ pc' = "vdist:74"
    /\ UNCHANGED <<vd, vr, tr, calls, outcome, wgs84>>

\* lines 74-77: the default ellipsoid and the latitude assert
VdistCheck ==
    /\ pc = "vdist:74"
    /\ args' = [args EXCEPT !.ell = DefaultEll(args.ell, wgs84)]
    /\ \E e \in {assert(VdistLatitudesOk(args.Lat1, args.Lat2), VdistLatMessage)} :
          IF e.name # "none"
          THEN pc' = "thrown" /\ outcome' = Thrown(e)
          ELSE pc' = "vdist:78" /\ outcome' = outcome
    /\ UNCHANGED <<fn, vd, vr, tr, calls, wgs84>>

\* a fault: lines 78-102 storing a value back on the ellipsoid object
VdistInitWritesEll ==
    /\ pc = "vdist:78"
    /\ vd' = VdistSetup(args.Lat1, args.Lon1, args.Lat2, args.Lon2, args.ell)
    /\ wgs84' = IF args.ell = wgs84
                THEN [wgs84 EXCEPT !.flattening = Sub(K(1), wgs84.flattening)]
                ELSE wgs84
    /\ args' = IF args.ell = wgs84 THEN [args EXCEPT !.ell = wgs84']
               ELSE [args EXCEPT !.ell.flattening = Sub(K(1), args.ell.flattening)]
    /\ pc' = "vdist:103"
    /\ UNCHANGED <<fn, vr, tr, calls, outcome>>

\* lines 78-102
VdistInit ==
    /\ pc = "vdist:78"
    /\ vd' = VdistSetup(args.Lat1, args.Lon1, args.Lat2, args.Lon2, args.ell)
    /\ pc' = "vdist:103"
    /\ UNCHANGED <<fn, args, vr, tr, calls, outcome, wgs84>>

\* lines 103-146: the loop test holds, one entry into the body
VdistIterate ==
    /\ pc = "vdist:103"
    /\ vd.notdone
    /\ vd' = VdistPass(vd)
    /\ IF vd'.thrown.name # "none"
       THEN pc' = "thrown" /\ outcome' = Thrown(vd'.thrown)
       ELSE /\ pc' = IF vd'.broke THEN "vdist:147" ELSE "vdist:103"
            /\ outcome' = outcome
    /\ UNCHANGED <<fn, args, vr, tr, calls, wgs84>>

\* line 103: the loop test fails
VdistExitLoop ==
    /\ pc = "vdist:103"
    /\ ~vd.notdone
    /\ pc' = "vdist:147"
    /\ UNCHANGED <<fn, args, vd, vr, tr, calls, outcome, wgs84>>

\* lines 147-161
VdistFinish ==
    /\ pc = "vdist:147"
    /\ vd' = VdistPost(vd)
    /\ outcome' = Returned(VdistValue(vd'))
    /\ pc' = "returned"
    /\ UNCHANGED <<fn, args, vr, tr, calls, wgs84>>

\* -------------------------------------------------------------- vreckon
CallVreckon ==
    /\ pc = "idle"
    /\ \E Lat1 \in Latitudes, Lon1 \in Longitudes, Rng \in Ranges,
          Azim \in Azimuths, ell \in ReckonElls :
          args' = [NoArgs EXCEPT !.Lat1 = Lat1, !.Lon1 = Lon1, !.Rng = Rng,
                                 !.Azim = Azim, !.ell = ell]
    /\ fn' = "vreckon"
    /\ pc' = "vreckon:224"
    /\ UNCHANGED <<vd, vr, tr, calls, outcome, wgs84>>

\* the caller feeds the distance and azimuth vdist returned into vreckon, from
\* the same start point and on the same ellipsoid; Lat2 and Lon2 stay in args
CallVreckonBack ==
    /\ pc = "returned"
    /\ fn = "vdist"
    /\ args' = [args EXCEPT !.Rng = outcome.value[1], !.Azim = outcome.value[2]]
    /\ fn' = "vreckon"
    /\ pc' = "vreckon:224"
    /\ vd' = VdistDeclared
    /\ outcome' = NoOutcome
    /\ UNCHANGED <<vr, tr, calls, wgs84>>

\* lines 224-225: the two asserts
VreckonCheck ==
    /\ pc = "vreckon:224"
    /\ \E e \in {VreckonPrecondition(args.Lat1, args.Rng)} :
          IF e.name # "none"
          THEN pc' = "thrown" /\ outcome' = Thrown(e)
          ELSE pc' = "vreckon:227" /\ outcome' = outcome
    /\ UNCHANGED <<fn, args, vd, vr, tr, calls, wgs84>>

\* lines 227-256
VreckonInit ==
    /\ pc = "vreckon:227"
    /\ args' = [args EXCEPT !.ell = DefaultEll(args.ell, wgs84)]
    /\ vr' = VreckonSetup(args.Lat1, args.Lon1, args.Rng, args.Azim,
                          DefaultEll(args.ell, wgs84))
    /\ pc' = "vreckon:257"
    /\ UNCHANGED <<fn, vd, tr, calls, outcome, wgs84>>

\* lines 257-265: the loop test holds, one pass of the body
VreckonIterate ==
    /\ pc = "vreckon:257"
    /\ vr.i
    /\ vr.passes < MaxReckonPasses
    /\ vr' = VreckonPass(vr)
    /\ UNCHANGED <<pc, fn, args, vd, tr, calls, outcome, wgs84>>

\* line 257: the loop test fails
VreckonExitLoop ==
    /\ pc = "vreckon:257"
    /\ ~vr.i
    /\ pc' = "vreckon:266"
    /\ UNCHANGED <<fn, args, vd, vr, tr, calls, outcome, wgs84>>

\* lines 266-273
VreckonFinish ==
    /\ pc = "vreckon:266"
    /\ vr' = VreckonPost(vr)
    /\ outcome' = Returned(VreckonValue(vr'))
    /\ pc' = "returned"
    /\ UNCHANGED <<fn, args, vd, tr, calls, wgs84>>

\* --------------------------------------------------------------- track2
CallTrack2 ==
    /\ pc = "idle"
    /\ \E deg \in BOOLEAN, npts \in Npts, ell \in Ells :
         \E lat1 \in TrackLatitudes(deg), lon1 \in TrackLongitudes(deg),
            lat2 \in TrackLatitudes(deg), lon2 \in TrackLongitudes(deg) :
            args' = [NoArgs EXCEPT !.Lat1 = lat1, !.Lon1 = lon1, !.Lat2 = lat2,
                                   !.Lon2 = lon2, !.ell = ell, !.npts = npts,
                                   !.deg = deg]
    /\ fn' = "track2"
    /\ pc' = "track2:309"
    /\ UNCHANGED <<vd, vr, tr, calls, outcome, wgs84>>

\* lines 309-312: the default ellipsoid and the npts assert
Track2Check ==
    /\ pc = "track2:309"
    /\ args' = [args EXCEPT !.ell = DefaultEll(args.ell, wgs84)]
    /\ \E e \in {assert(Track2NptsOk(args.npts), Track2NptsMessage)} :
          IF e.name # "none"
          THEN pc' = "thrown" /\ outcome' = Thrown(e)
          ELSE pc' = "track2:314" /\ outcome' = outcome
    /\ UNCHANGED <<fn, vd, vr, tr, calls, wgs84>>

\* lines 314-316
Track2TwoPoints ==
    /\ pc = "track2:314"
    /\ IF Track2IsTwoPoints(args.npts)
       THEN /\ outcome' = Returned(Track2Endpoints(args.Lat1, args.Lon1,
                                                   args.Lat2, args.Lon2))
            /\ pc' = "returned"
       ELSE /\ outcome' = outcome
            /\ pc' = "track2:317"
    /\ UNCHANGED <<fn, args, vd, vr, tr, calls, wgs84>>

\* lines 317-326: the arc and the antipodal assert
Track2Antipodal ==
    /\ pc = "track2:317"
    /\ tr' = [tr EXCEPT !.gcarclen = Track2Gcarclen(args.Lat1, args.Lon1, args.Lat2,
                                                     args.Lon2, args.deg)]
    /\ \E e \in {assert(Track2NotAntipodal(tr'.gcarclen), Track2AntipodalMessage)} :
          /\ IF e.name # "none"
             THEN pc' = "thrown" /\ outcome' = Thrown(e)
             ELSE pc' = "track2:328" /\ outcome' = outcome
    /\ UNCHANGED <<fn, args, vd, vr, calls, wgs84>>

\* lines 328-333: the inverse solver, called without the ellipsoid
Track2Inverse ==
    /\ pc = "track2:328"
    /\ \E r \in {vdist(args.Lat1, args.Lon1, args.Lat2, args.Lon2, Null, wgs84)} :
          /\ calls' = Append(calls, Track2CallVdist(Null))
          /\ IF r.thrown.name # "none"
             THEN pc' = "thrown" /\ outcome' = Thrown(r.thrown) /\ tr' = tr
             ELSE /\ pc' = "track2:334"
                  /\ outcome' = outcome
                  /\ tr' = Track2Start(tr, r, args.Lat1, args.Lon1, args.npts)
    /\ UNCHANGED <<fn, args, vd, vr, wgs84>>

\* lines 334-348: the for statement and what follows it
Track2Loop ==
    /\ pc = "track2:334"
    /\ \E r \in {Track2For(tr, args.Lat2, args.Lon2, args.ell, args.npts, wgs84)} :
          /\ calls' = calls \o r.calls
          /\ pc' = "thrown"
          /\ outcome' = Thrown(r.thrown)
    /\ UNCHANGED <<fn, args, vd, vr, tr, wgs84>>

\* ------------------------------------------------------------ Ellipsoid
NewEllipsoid ==
    /\ pc = "idle"
    /\ \E semimajor_axis \in Axes, semiminor_axis \in Axes :
          args' = [NoArgs EXCEPT !.semimajor_axis = semimajor_axis,
                                 !.semiminor_axis = semiminor_axis]
    /\ fn' = "Ellipsoid"
    /\ pc' = "Ellipsoid:56"
    /\ UNCHANGED <<vd, vr, tr, calls, outcome, wgs84>>

\* lines 56-62: the constructor throws at its assert or yields the object
EllipsoidConstructor ==
    /\ pc = "Ellipsoid:56"
    /\ \E r \in {Ellipsoid(args.semimajor_axis, args.semiminor_axis, "")} :
          IF r.thrown.name # "none"
          THEN pc' = "thrown" /\ outcome' = Thrown(r.thrown)
          ELSE pc' = "returned" /\ outcome' = Returned(<<r.object>>)
    /\ UNCHANGED <<fn, args, vd, vr, tr, calls, wgs84>>

\* the call is over; the caller may make the next one
Finish ==
    /\ pc \in {"returned", "thrown"}
    /\ pc' = "idle"
    /\ fn' = "none"
    /\ args' = NoArgs
    /\ vd' = VdistDeclared
    /\ vr' = VreckonDeclared
    /\ tr' = Track2Declared
    /\ calls' = <<>>
    /\ outcome' = NoOutcome
    /\ UNCHANGED wgs84

Next ==
    \/ CallVdist \/ VdistCheck \/ VdistInit \/ VdistIterate \/ VdistExitLoop
    \/ VdistFinish
    \/ CallVreckon \/ CallVreckonBack \/ VreckonCheck \/ VreckonInit
    \/ VreckonIterate \/ VreckonExitLoop \/ VreckonFinish
    \/ CallTrack2 \/ Track2Check \/ Track2TwoPoints \/ Track2Antipodal
    \/ Track2Inverse \/ Track2Loop
    \/ NewEllipsoid \/ EllipsoidConstructor
    \/ Finish

Spec == Init /\ [][Next]_vars


(***************************************************************************)
(* Properties of the three functions.                                      *)
(***************************************************************************)
\* a latitude in degrees beyond a pole
BeyondPole(lat) == lat.k = "num" /\ (lat.v > 90 * Scale \/ lat.v < -(90 * Scale))

\* the Error an assert throws with message m
AssertError(m) == [name |-> "Error", message |-> m]

\* the running call is over
CallOver == pc \in {"returned", "thrown"}

\* C1: a call of vdist with a latitude beyond +-90 degrees ends in the error of
\* the latitude assert with no pass of the loop run, no entry into it and no
\* warning; a call with both latitudes within +-90 never throws that error.
C1_VdistLatitudeCheck ==
    (fn = "vdist" /\ pc # "vdist:74") =>
        IF BeyondPole(args.Lat1) \/ BeyondPole(args.Lat2)
        THEN /\ pc = "thrown"
             /\ outcome = Thrown(AssertError(VdistLatMessage))
             /\ vd.passes = 0 /\ vd.itercount = 0 /\ vd.warnings = 0
        ELSE outcome.thrown # AssertError(VdistLatMessage)

\* vdist has thrown for a second latitude beyond the pole, the first being fine
C1_Witness ==
    /\ fn = "vdist" /\ pc = "thrown"
    /\ ~BeyondPole(args.Lat1) /\ BeyondPole(args.Lat2)

\* C2: a call of vreckon with Rng < 0 or a latitude beyond +-90 degrees ends in
\* the error of one of its two asserts before any local is set and any pass is
\* run; a call with the latitude within +-90 and Rng >= 0 throws nothing.  Rng
\* is a number here: NaN is neither below 0 nor at least 0.
C2_VreckonPreconditions ==
    (fn = "vreckon" /\ pc # "vreckon:224" /\ args.Rng.k = "num") =>
        IF BeyondPole(args.Lat1) \/ args.Rng.v < 0
        THEN /\ pc = "thrown"
             /\ outcome \in {Thrown(AssertError(VreckonLatMessage)),
                             Thrown(AssertError(VreckonRngMessage))}
             /\ vr = VreckonDeclared
        ELSE outcome.status # "thrown"

\* vreckon has returned for Rng = 0 and a westward azimuth
C2_Witness ==
    /\ fn = "vreckon" /\ pc = "returned"
    /\ args.Rng = K(0) /\ args.Azim = K(270)

\* C3: a call of track2 with npts <= 1 ends in the error of the npts assert
\* with no solver called, no arc computed and no point stored.
C3_Track2NptsFirst ==
    (fn = "track2" /\ pc # "track2:309" /\ args.npts <= 1) =>
        /\ pc = "thrown"
        /\ outcome = Thrown(AssertError(Track2NptsMessage))
        /\ calls = <<>>
        /\ tr = Track2Declared

\* track2 has thrown for npts = 1 and antipodal endpoints
C3_Witness ==
    /\ fn = "track2" /\ pc = "thrown" /\ args.npts = 1 /\ args.deg
    /\ args.Lat1 = K(0) /\ args.Lat2 = K(0) /\ args.Lon1 = K(0) /\ args.Lon2 = K(180)

\* C4: a call of track2 with npts = 2 returns [[lat1, lat2], [lon1, lon2]] of
\* its arguments as they were passed, with no solver called and no arc
\* computed, whatever the endpoints.
C4_Track2TwoPoints ==
    (fn = "track2" /\ args.npts = 2 /\ pc \notin {"track2:309", "track2:314"}) =>
        /\ pc = "returned"
        /\ outcome = Returned(<<<<args.Lat1, args.Lat2>>, <<args.Lon1, args.Lon2>>>>)
        /\ calls = <<>>
        /\ tr = Track2Declared

\* track2 has returned for npts = 2 and antipodal endpoints
C4_Witness ==
    /\ fn = "track2" /\ pc = "returned" /\ args.npts = 2 /\ args.deg
    /\ args.Lat1 = K(30) /\ args.Lat2 = K(-30) /\ args.Lon1 = K(0) /\ args.Lon2 = K(180)

\* the arc track2 computed is within 1e-12 of pi
ArcIsPi == tr.gcarclen.k = "num" /\ AbsI(tr.gcarclen.v - pi.v) < Eps12.v

GoodEndpoints ==
    /\ args.deg
    /\ ~BeyondPole(args.Lat1) /\ ~BeyondPole(args.Lat2)
    /\ outcome.thrown # AssertError(Track2AntipodalMessage)

\* C6: a call of track2 with npts >= 2 and valid, non-antipodal endpoints ends
\* by returning a latitude list and a longitude list of npts elements each.
C6_Track2ReturnsNpts ==
    (fn = "track2" /\ args.npts >= 2 /\ GoodEndpoints /\ CallOver) =>
        /\ pc = "returned"
        /\ Len(outcome.value) = 2
        /\ Len(outcome.value[1]) = args.npts
        /\ Len(outcome.value[2]) = args.npts

\* C7: a call of track2 with npts >= 2 and valid, non-antipodal endpoints in
\* degrees ends by returning lists whose first elements are (lat1, lon1) and
\* whose last elements are (lat2, lon2).
C7_Track2EndsAtEndpoints ==
    (fn = "track2" /\ args.npts >= 2 /\ GoodEndpoints /\ CallOver) =>
        /\ outcome.status = "returned"
        /\ Len(outcome.value) = 2
        /\ Len(outcome.value[1]) >= 2 /\ Len(outcome.value[2]) >= 2
        /\ outcome.value[1][1] = args.Lat1
        /\ outcome.value[2][1] = args.Lon1
        /\ outcome.value[1][Len(outcome.value[1])] = args.Lat2
        /\ outcome.value[2][Len(outcome.value[2])] = args.Lon2

C10_VdistZeroDivisionGuarded ==
    fn = "vdist" =>
        /\ outcome.thrown.name # "ZeroDivisionError"
        /\ (vd.caught > 0 => vd.sinAlpha = K(0) /\ pc # "thrown")

\* vdist has caught a ZeroDivisionError and returned, for coincident points at
\* a pole
C10_Witness ==
    /\ fn = "vdist" /\ pc = "returned" /\ vd.caught > 0
    /\ args.Lat1 = K(90) /\ args.Lat2 = K(90) /\ args.Lon1 = args.Lon2

\* the value x is a finite number
IsNumber(x) == x.k = "num"

\* the running call of vdist has valid arguments
ValidVdist == fn = "vdist" /\ ~BeyondPole(args.Lat1) /\ ~BeyondPole(args.Lat2)

\* C11: in a call of vdist with valid arguments every pass leaves sinsigma,
\* cossigma, sigma, sinAlpha and alpha finite numbers, and the distance and
\* the azimuth returned are finite numbers.
C11_VdistNoNaN ==
    ValidVdist =>
        /\ (vd.passes > 0 =>
               /\ IsNumber(vd.sinsigma) /\ IsNumber(vd.cossigma) /\ IsNumber(vd.sigma)
               /\ IsNumber(vd.sinAlpha) /\ IsNumber(vd.alpha))
        /\ (pc = "returned" =>
               IsNumber(outcome.value[1]) /\ IsNumber(outcome.value[2]))

\* a call of vdist with valid arguments has returned
VdistReturned == ValidVdist /\ pc = "returned"

\* C12: the distance a call of vdist with valid arguments returns is >= 0.
C12_VdistDistanceNonNegative ==
    VdistReturned => Ge(outcome.value[1], K(0))

\* C13: the azimuth a call of vdist with valid arguments returns lies in
\* [0, 360).
C13_VdistAzimuthNormalized ==
    VdistReturned => Ge(outcome.value[2], K(0)) /\ Lt(outcome.value[2], K(360))

\* C15: a call of vdist whose two points are the same valid point returns the
\* distance 0.
C15_VdistCoincidentZero ==
    (VdistReturned /\ args.Lat1 = args.Lat2 /\ args.Lon1 = args.Lon2) =>
        outcome.value[1] = K(0)

\* C16: a call of vdist from the north pole returns the azimuth 180 and a call
\* from the south pole the azimuth 0.
C16_VdistPoleAzimuth ==
    VdistReturned =>
        /\ (args.Lat1 = K(90) => outcome.value[2] = K(180))
        /\ (args.Lat1 = K(-90) => outcome.value[2] = K(0))

\* C20: after a pass of vdist's loop the loop goes on exactly when
\* |lamb - lambdaold| > 1e-12, and a call that has left the loop with no warning
\* emitted has |lamb - lambdaold| <= 1e-12.
C20_VdistStopsOnConvergence ==
    ValidVdist =>
        /\ (pc = "vdist:103" /\ vd.passes > 0 =>
               (vd.notdone <=> Gt(abs(Sub(vd.lamb, vd.lambdaold)), Eps12)))
        /\ (pc = "vdist:147" /\ vd.warnings = 0 =>
               Le(abs(Sub(vd.lamb, vd.lambdaold)), Eps12))

\* C14: the longitude a call of vreckon returns, when it is a number, lies in
\* (-180, 180].
C14_VreckonLongitudeNormalized ==
    (fn = "vreckon" /\ pc = "returned" /\ outcome.value[2].k = "num") =>
        Gt(outcome.value[2], K(-180)) /\ Le(outcome.value[2], K(180))

\* the running call of vreckon was fed the result of vdist for the points
\* (Lat1, Lon1) and (Lat2, Lon2) of args
RoundTrip == fn = "vreckon" /\ IsNumber(args.Lat2) /\ IsNumber(args.Lon2)

\* the two points of args are valid and less than 179 degrees apart on the
\* sphere
Below179 ==
    /\ ~BeyondPole(args.Lat1) /\ ~BeyondPole(args.Lat2)
    /\ Lt(Track2Gcarclen(args.Lat1, args.Lon1, args.Lat2, args.Lon2, TRUE),
          radians(K(179)))

\* the values x and y differ by at most one unit in the last place
Close(x, y) == IsNumber(x) /\ IsNumber(y) /\ AbsI(x.v - y.v) <= 1

\* C17: vreckon fed the distance and azimuth vdist returned for two valid
\* points less than 179 degrees apart returns, and returns the second point.
C17_RoundTrip ==
    (RoundTrip /\ Below179 /\ CallOver) =>
        /\ pc = "returned"
        /\ Close(outcome.value[1], args.Lat2)
        /\ Close(outcome.value[2], args.Lon2)

\* C19: a call of track2 with npts > 2 and valid, non-antipodal endpoints makes
\* 1 + 2 * (npts - 2) solver calls: vdist once, then npts - 2 times vreckon
\* followed by vdist.
C19_Track2SolverCalls ==
    (fn = "track2" /\ args.npts > 2 /\ GoodEndpoints /\ CallOver) =>
        /\ Len(calls) = 1 + 2 * (args.npts - 2)
        /\ calls[1].fn = "vdist"
        /\ \A i \in 1..(args.npts - 2) :
              calls[2 * i].fn = "vreckon" /\ calls[2 * i + 1].fn = "vdist"

\* the outcome of a call whose whole run is r
OutcomeOf(r) == IF r.thrown.name # "none" THEN Thrown(r.thrown) ELSE Returned(r.value)

\* C18: the module-level ellipsoid and the ellipsoid a caller passes are never
\* changed, nothing of a call is left when it is over, and a call of vdist or
\* vreckon made after any sequence of calls ends as the same call run alone
\* with the ellipsoid as constructed.
C18_NoSharedWrites ==
    /\ wgs84 = Wgs84Object
    /\ args.ell \in {Null, SaturnObject, OblateObject, Wgs84Object}
    /\ (pc = "idle" =>
           /\ fn = "none" /\ args = NoArgs /\ calls = <<>> /\ outcome = NoOutcome
           /\ vd = VdistDeclared /\ vr = VreckonDeclared /\ tr = Track2Declared)
    /\ (fn = "vdist" /\ CallOver =>
           outcome = OutcomeOf(vdist(args.Lat1, args.Lon1, args.Lat2, args.Lon2,
                                     args.ell, Wgs84Object)))
    /\ (fn = "vreckon" /\ CallOver =>
           outcome = OutcomeOf(vreckon(args.Lat1, args.Lon1, args.Rng, args.Azim,
                                       args.ell, Wgs84Object)))

\* vreckon has returned numbers computed on the module-level ellipsoid
C18_Witness ==
    /\ fn = "vreckon" /\ pc = "returned" /\ args.ell = Wgs84Object
    /\ IsNumber(outcome.value[1]) /\ IsNumber(outcome.value[2])

\* C22: the value L with which a call of vdist enters its loop lies in
\* [0, pi], and lamb starts from it.
C22_VdistLInRange ==
    (ValidVdist /\ pc = "vdist:103" /\ vd.passes = 0) =>
        Ge(vd.L, K(0)) /\ Le(vd.L, pi) /\ vd.lamb = vd.L

\* lat is what the latitude Lat, in degrees within +-90, must be when it
\* enters the formulas: Lat in radians, or the nudged pole of the same sign
\* when that is within 1e-10 of a pole; never nearer to a pole than 1e-10
NudgedFrom(lat, Lat) ==
    /\ IsNumber(lat)
    /\ AbsI(lat.v) <= HalfPiI - Eps10.v
    /\ SgnI(lat.v) = SgnI(Lat.v)
    /\ IF HalfPiI - AbsI(radians(Lat).v) < Eps10.v
       THEN AbsI(lat.v) = HalfPiI - Eps10.v
       ELSE lat = radians(Lat)

\* C23: once vdist or vreckon has set its locals, each latitude is the argument
\* in radians, or sign(lat) * (pi/2 - 1e-10) when the argument is within 1e-10
\* of a pole, so it keeps its sign and is at most pi/2 - 1e-10 in size.
C23_PoleNudge ==
    /\ (fn = "vdist" /\ ~(vd.lat1.k = "undefined") =>
           NudgedFrom(vd.lat1, args.Lat1) /\ NudgedFrom(vd.lat2, args.Lat2))
    /\ (fn = "vreckon" /\ ~(vr.lat1.k = "undefined") =>
           NudgedFrom(vr.lat1, args.Lat1))

\* vdist has entered its loop from the south pole towards latitude 45
C23_Witness ==
    /\ fn = "vdist" /\ pc = "vdist:103"
    /\ args.Lat1 = K(-90) /\ args.Lat2 = K(45)
    /\ vd.lat1 = N(Eps10.v - HalfPiI) /\ vd.lat2 = radians(K(45))

\* the locals vreckon's loop body assigns, its loop flag and the count of
\* passes, and the locals the statements after the loop assign
VreckonIterated == {"sigma", "sigmaP", "deltaSigma", "sinSigma", "cosSigma", "cos2SigmaM"}
VreckonLoopFlags == {"i", "passes"}
VreckonResults == {"tmp", "lat2", "lamb", "C", "L", "lon2"}

\* C24: vreckon leaves its loop exactly when sigma and the previous sigma
\* differ by at most 1e-12, each pass sets sigma to Rng / (b * A) plus the
\* deltaSigma of the previous sigma, and no count of passes ends the loop.
C24_VreckonStopsOnSigma ==
    fn = "vreckon" =>
        /\ (pc \in {"vreckon:266", "returned"} =>
               Le(abs(Sub(vr.sigma, vr.sigmaP)), Eps12))
        /\ (pc = "vreckon:257" =>
               /\ vr.i <=> Gt(abs(Sub(vr.sigma, vr.sigmaP)), Eps12)
               /\ vr.i => vr.passes < MaxReckonPasses)
        /\ (vr.passes >= 1 =>
               vr.sigma = Add(Div(vr.Rng, Mul(vr.b, vr.A)),
                              VreckonDeltaSigma(VreckonTrig(
                                  [vr EXCEPT !.sigma = vr.sigmaP])).deltaSigma))

\* vreckon has returned after at least two passes with a deltaSigma that is
\* not zero
C24_Witness ==
    /\ fn = "vreckon" /\ pc = "returned" /\ vr.passes >= 2
    /\ IsNumber(vr.sigma) /\ IsNumber(vr.deltaSigma) /\ vr.deltaSigma # K(0)

\* C25: from the entry of vreckon's loop to the return, sinAlpha stays
\* cosU1 * sinAlpha1; a pass of the loop changes only sigma, sigmaP,
\* deltaSigma, sinSigma, cosSigma and cos2SigmaM (and the loop flag), and the
\* statements after the loop assign only the result locals, so A, B, sigma1
\* and the start point are never changed.
C25_VreckonFrame ==
    [][(fn = "vreckon" /\ pc \in {"vreckon:257", "vreckon:266"}) =>
          /\ \A k \in DOMAIN vr \ (IF pc' = "vreckon:257"
                                    THEN VreckonIterated \cup VreckonLoopFlags
                                    ELSE IF pc' = "returned" THEN VreckonResults
                                    ELSE {}) :
                vr'[k] = vr[k]
          /\ vr.sinAlpha = Mul(vr.cosU1, vr.sinAlpha1)
          /\ vr'.sinAlpha = Mul(vr'.cosU1, vr'.sinAlpha1)]_vars

\* vreckon has run a pass of its loop on a course that is not along a meridian
C25_Witness ==
    /\ fn = "vreckon" /\ pc = "vreckon:257" /\ vr.passes >= 1
    /\ IsNumber(vr.sinAlpha) /\ vr.sinAlpha # K(0)
    /\ IsNumber(vr.sinSigma) /\ vr.sinSigma # vr.sinAlpha

\* C26: every solver call track2 has made was given the ellipsoid of the call
\* of track2, the caller's or WGS-84 when the caller passed none.
C26_Track2PassesEll ==
    (fn = "track2" /\ pc # "track2:309") =>
        \A n \in 1..Len(calls) : DefaultEll(calls[n].ell, wgs84) = args.ell

C28_VreckonBodyRuns ==
    (fn = "vreckon" /\ pc = "returned") =>
        /\ vr.passes >= 1
        /\ IsNumber(vr.sinSigma) /\ IsNumber(vr.cosSigma) /\ IsNumber(vr.cos2SigmaM)
        /\ IsNumber(outcome.value[1]) /\ IsNumber(outcome.value[2])

\* C29: a call of track2 with deg = false, npts > 2 and endpoints that are not
\* antipodal ends by returning lists whose first elements are (lat1, lon1) and
\* whose last elements are (lat2, lon2), as given in radians.
C29_Track2RadiansEndpoints ==
    (fn = "track2" /\ ~args.deg /\ args.npts > 2 /\ CallOver
        /\ outcome.thrown # AssertError(Track2AntipodalMessage)) =>
        /\ pc = "returned"
        /\ Len(outcome.value) = 2
        /\ Len(outcome.value[1]) = args.npts /\ Len(outcome.value[2]) = args.npts
        /\ outcome.value[1][1] = args.Lat1 /\ outcome.value[2][1] = args.Lon1
        /\ outcome.value[1][args.npts] = args.Lat2
        /\ outcome.value[2][args.npts] = args.Lon2

\* the axes satisfy a > 0 and 0 <= b <= a
GoodAxes(a, b) == Gt(a, K(0)) /\ Ge(b, K(0)) /\ Le(b, a)

\* C30: the constructor of Ellipsoid yields an object exactly when the axes
\* satisfy a > 0 and 0 <= b <= a, and the object's flattening is
\* (a - b) / a >= 0.
C30_EllipsoidInvariant ==
    (fn = "Ellipsoid" /\ CallOver) =>
        IF GoodAxes(args.semimajor_axis, args.semiminor_axis)
        THEN /\ pc = "returned"
             /\ outcome.value[1].semimajor_axis = args.semimajor_axis
             /\ outcome.value[1].semiminor_axis = args.semiminor_axis
             /\ outcome.value[1].flattening =
                    Div(Sub(args.semimajor_axis, args.semiminor_axis),
                        args.semimajor_axis)
             /\ Ge(outcome.value[1].flattening, K(0))
        ELSE pc = "thrown"

====
